---- MODULE Spec2Model ----
(***************************************************************************)
(* pass-clean (src/index.js): deduplication of a password CSV export.      *)
(*                                                                         *)
(* Strings are sequences of one-character strings, so that trimming,       *)
(* lowercasing, prefix tests, URL and date parsing and the "|" of the      *)
(* dedup key are computed character by character.  A row is a function     *)
(* from the column names it has to strings; a column a row lacks reads as  *)
(* `undefined`.                                                            *)
(***************************************************************************)
EXTENDS Integers, Sequences, FiniteSets, TLC

(***************************************************************************)
(* Bounds of the model.                                                    *)
(***************************************************************************)
\* rows a run reads from its input before end-of-stream
MaxRows == 3
\* characters of an input path
MaxPathLen == 4

\* the most rows each of two calls of run() reads
MaxCallRows == 2

(***************************************************************************)
(* JavaScript values and string primitives.                                *)
(***************************************************************************)
\* the value of a missing property; no string equals it
undefined == <<"undefined">>

\* !v for v a string or undefined
Falsy(v) == v = undefined \/ v = <<>>

\* a || b
Or(a, b) == IF Falsy(a) THEN b ELSE a

\* row.col
Field(row, col) == IF col \in DOMAIN row THEN row[col] ELSE undefined

\* a ?? b, which the program does not use: b only when a is absent
Nullish(a, b) == IF a = undefined THEN b ELSE a

\* the characters String.prototype.trim removes, as far as the model has them
IsSpace(c) == c = " "

RECURSIVE trimStart(_)
trimStart(s) ==
    IF s # <<>> /\ IsSpace(Head(s)) THEN trimStart(Tail(s)) ELSE s

RECURSIVE trimEnd(_)
trimEnd(s) ==
    IF s # <<>> /\ IsSpace(s[Len(s)])
    THEN trimEnd(SubSeq(s, 1, Len(s) - 1))
    ELSE s

\* String.prototype.trim
trim(s) == trimEnd(trimStart(s))

UpperLetters ==
    <<"A","B","C","D","E","F","G","H","I","J","K","L","M",
      "N","O","P","Q","R","S","T","U","V","W","X","Y","Z">>

LowerLetters ==
    <<"a","b","c","d","e","f","g","h","i","j","k","l","m",
      "n","o","p","q","r","s","t","u","v","w","x","y","z">>

LowerChar(c) ==
    IF \E i \in 1..26 : UpperLetters[i] = c
    THEN LowerLetters[CHOOSE i \in 1..26 : UpperLetters[i] = c]
    ELSE c

\* String.prototype.toLowerCase (ASCII)
toLowerCase(s) == [i \in 1..Len(s) |-> LowerChar(s[i])]

\* String.prototype.startsWith
startsWith(s, p) == Len(s) >= Len(p) /\ SubSeq(s, 1, Len(p)) = p

IsDigit(c) == c \in {"0","1","2","3","4","5","6","7","8","9"}

DigitVal(c) ==
    CASE c = "0" -> 0 [] c = "1" -> 1 [] c = "2" -> 2 [] c = "3" -> 3
      [] c = "4" -> 4 [] c = "5" -> 5 [] c = "6" -> 6 [] c = "7" -> 7
      [] c = "8" -> 8 [] c = "9" -> 9

AllDigits(s) == \A i \in 1..Len(s) : IsDigit(s[i])

RECURSIVE DecimalPrefix(_, _)
DecimalPrefix(s, n) ==
    IF n = 0 THEN 0 ELSE 10 * DecimalPrefix(s, n - 1) + DigitVal(s[n])

\* the number a string of digits writes
DecimalValue(s) == DecimalPrefix(s, Len(s))

\* the least index of a character of s that is in set cs, or 0
IndexOfAny(s, cs) ==
    IF \E i \in 1..Len(s) : s[i] \in cs
    THEN CHOOSE i \in 1..Len(s) : s[i] \in cs /\ \A j \in 1..(i - 1) : s[j] \notin cs
    ELSE 0

\* the greatest index of character c in s, or 0
LastIndexOf(s, c) ==
    IF \E i \in 1..Len(s) : s[i] = c
    THEN CHOOSE i \in 1..Len(s) : s[i] = c /\ \A j \in (i + 1)..Len(s) : s[j] # c
    ELSE 0

\* a literal's characters are written one by one; these are the ones used often
Pipe == <<"|">>
HttpPrefix == <<"h","t","t","p">>
HttpsSlashes == <<"h","t","t","p","s",":","/","/">>

(***************************************************************************)
(* Date.  new Date(s).getTime() is a number of milliseconds or NaN.  The   *)
(* model parses the date-only forms of the ECMAScript date-time string     *)
(* format (YYYY, YYYY-MM, YYYY-MM-DD, all UTC midnight) and takes every    *)
(* other string as unparseable; the implementation-defined fallback        *)
(* formats of the engine are outside the model's inputs.  All instants of  *)
(* the model are midnights, so a timestamp is kept as its number of days   *)
(* since 1970-01-01 (getTime() / 86400000): the order and the equality of  *)
(* timestamps are those of the milliseconds.                               *)
(***************************************************************************)
NaN == [nan |-> TRUE, v |-> 0]

Num(x) == [nan |-> FALSE, v |-> x]

\* a > b on numbers: false as soon as one side is NaN
Gt(a, b) == ~a.nan /\ ~b.nan /\ a.v > b.v

\* days from 1970-01-01 to the civil date y-m-d (proleptic Gregorian)
DaysFromCivil(y, m, d) ==
    LET yy  == IF m <= 2 THEN y - 1 ELSE y
        era == yy \div 400
        yoe == yy - era * 400
        mp  == IF m > 2 THEN m - 3 ELSE m + 9
        doy == (153 * mp + 2) \div 5 + d - 1
        doe == yoe * 365 + yoe \div 4 - yoe \div 100 + doy
    IN  era * 146097 + doe - 719468

\* new Date(s).getTime() for a non-empty string s
DateParse(s) ==
    LET n  == Len(s)
        yr == DecimalValue(SubSeq(s, 1, 4))
        mo == DecimalValue(SubSeq(s, 6, 7))
        dy == DecimalValue(SubSeq(s, 9, 10))
        yearOk  == n >= 4 /\ AllDigits(SubSeq(s, 1, 4))
        monthOk == n >= 7 /\ s[5] = "-" /\ AllDigits(SubSeq(s, 6, 7))
                     /\ mo >= 1 /\ mo <= 12
        dayOk   == n >= 10 /\ s[8] = "-" /\ AllDigits(SubSeq(s, 9, 10))
                     /\ dy >= 1 /\ dy <= 31
    IN  IF n = 4 /\ yearOk THEN Num(DaysFromCivil(yr, 1, 1))
        ELSE IF n = 7 /\ yearOk /\ monthOk THEN Num(DaysFromCivil(yr, mo, 1))
        ELSE IF n = 10 /\ yearOk /\ monthOk /\ dayOk
             THEN Num(DaysFromCivil(yr, mo, dy))
        ELSE NaN

\* getTimestamp (src/index.js:128)
getTimestamp(dateString) ==
    IF Falsy(dateString) THEN Num(0) ELSE DateParse(dateString)

(***************************************************************************)
(* URL.  new URL(v) for the special schemes http and https, which are the  *)
(* only ones normalizeUrl hands to it for the model's inputs: leading and  *)
(* trailing spaces are stripped, the scheme ends at the first ":" and is   *)
(* lowercased, the slashes after it are skipped, the authority ends at the *)
(* first "/", "\", "?" or "#", credentials before "@" are dropped, the     *)
(* host ends at ":" and is lowercased, a port must be digits and the       *)
(* scheme's default port is dropped.  Parsing fails (new URL throws) on a  *)
(* missing scheme, an empty host, a forbidden host character or a bad      *)
(* port.                                                                   *)
(***************************************************************************)
UrlFailure == [ok |-> FALSE, protocol |-> <<>>, host |-> <<>>, path |-> <<>>]

ForbiddenHostChars ==
    {" ", "|", "<", ">", "[", "]", "^", "%", "@", ":", "/", "?", "#", "\\"}

RECURSIVE SkipSlashes(_)
SkipSlashes(s) ==
    IF s # <<>> /\ Head(s) \in {"/", "\\"} THEN SkipSlashes(Tail(s)) ELSE s

RECURSIVE StripZeros(_)
StripZeros(s) ==
    IF Len(s) > 1 /\ Head(s) = "0" THEN StripZeros(Tail(s)) ELSE s

DefaultPort(scheme) == IF scheme = HttpPrefix THEN 80 ELSE 443

\* the URL once host and port are known
UrlOf(scheme, hostname, portStr, path) ==
    IF \/ hostname = <<>>
       \/ \E i \in 1..Len(hostname) : hostname[i] \in ForbiddenHostChars
       \/ ~AllDigits(portStr)
       \/ Len(StripZeros(portStr)) > 5
       \/ DecimalValue(portStr) > 65535
    THEN UrlFailure
    ELSE [ok |-> TRUE,
          protocol |-> scheme \o <<":">>,
          host |-> toLowerCase(hostname) \o
                   (IF portStr = <<>> \/ DecimalValue(portStr) = DefaultPort(scheme)
                    THEN <<>>
                    ELSE <<":">> \o StripZeros(portStr)),
          path |-> path]

\* host state and port state: the host ends at the first ":" (at sep)
UrlHostPort(scheme, hostport, sep, path) ==
    IF sep = 0 THEN UrlOf(scheme, hostport, <<>>, path)
    ELSE UrlOf(scheme, SubSeq(hostport, 1, sep - 1),
               SubSeq(hostport, sep + 1, Len(hostport)), path)

\* the credentials, up to the last "@" (at at), are not part of the host
UrlCredentials(scheme, auth, at, path) ==
    UrlHostPort(scheme, SubSeq(auth, at + 1, Len(auth)),
                IndexOfAny(SubSeq(auth, at + 1, Len(auth)), {":"}), path)

\* authority state: the authority ends before the character at stop
UrlAuthority(scheme, rest, stop) ==
    IF stop = 0
    THEN UrlCredentials(scheme, rest, LastIndexOf(rest, "@"), <<>>)
    ELSE UrlCredentials(scheme, SubSeq(rest, 1, stop - 1),
                        LastIndexOf(SubSeq(rest, 1, stop - 1), "@"),
                        SubSeq(rest, stop, Len(rest)))

\* special authority slashes: every "/" and "\" after the scheme is skipped
UrlSlashes(scheme, rest) ==
    IF scheme \notin {HttpPrefix, HttpPrefix \o <<"s">>} THEN UrlFailure
    ELSE UrlAuthority(scheme, rest, IndexOfAny(rest, {"/", "\\", "?", "#"}))

\* scheme state: the scheme ends at the first ":" (at colon)
UrlScheme(s, colon) ==
    IF colon = 0 THEN UrlFailure
    ELSE UrlSlashes(toLowerCase(SubSeq(s, 1, colon - 1)),
                    SkipSlashes(SubSeq(s, colon + 1, Len(s))))

UrlStripped(s) == UrlScheme(s, IndexOfAny(s, {":"}))

\* new URL(input): [ok, protocol, host, path]
UrlParse(input) == UrlStripped(trim(input))

\* the result of normalizeUrl once the URL is parsed
NormalizedFrom(u, value) ==
    IF u.ok THEN u.protocol \o <<"/", "/">> \o u.host
    ELSE toLowerCase(trim(value))

\* normalizeUrl (src/index.js:134)
normalizeUrl(value) ==
    IF Falsy(value) THEN <<>>
    ELSE NormalizedFrom(UrlParse(IF startsWith(value, HttpPrefix) THEN value
                                 ELSE HttpsSlashes \o value),
                        value)

(***************************************************************************)
(* path (POSIX).  path.parse and path.join as Node computes them.          *)
(***************************************************************************)
CleanedSuffix == <<" ","(","c","l","e","a","n","e","d",")">>
DotCsv == <<".","c","s","v">>

\* the greatest index in lo..hi of a character of path that is (is = TRUE)
\* or is not (is = FALSE) the character c, or 0
LastAt(path, lo, hi, c, is) ==
    IF \E i \in lo..hi : (path[i] = c) = is
    THEN CHOOSE i \in lo..hi :
           (path[i] = c) = is /\ \A j \in (i + 1)..hi : (path[j] = c) # is
    ELSE 0

\* the parts, given where the last component starts and ends and where its
\* last dot is (0: it has none)
PathParts(path, startPart, baseFrom, end, dot) ==
    IF \/ dot = 0
       \/ dot = baseFrom                                   \* preDotState = 0
       \/ path[baseFrom] = "." /\ dot = end /\ dot = startPart + 2   \* ".."
    THEN [dir  |-> IF startPart > 0 THEN SubSeq(path, 1, startPart - 1)
                   ELSE IF path[1] = "/" THEN <<"/">> ELSE <<>>,
          base |-> SubSeq(path, baseFrom, end),
          name |-> SubSeq(path, baseFrom, end),
          ext  |-> <<>>]
    ELSE [dir  |-> IF startPart > 0 THEN SubSeq(path, 1, startPart - 1)
                   ELSE IF path[1] = "/" THEN <<"/">> ELSE <<>>,
          base |-> SubSeq(path, baseFrom, end),
          name |-> SubSeq(path, baseFrom, dot - 1),
          ext  |-> SubSeq(path, dot, end)]

\* the last component starts after the separator at startPart (0: none)
PathBase(path, startPart, baseFrom, end) ==
    PathParts(path, startPart, baseFrom, end,
              LastAt(path, baseFrom, end, ".", TRUE))

\* end: the last character that is not a trailing separator (0: none)
PathTail(path, first, end) ==
    IF end = 0
    THEN [dir  |-> IF path[1] = "/" THEN <<"/">> ELSE <<>>,
          base |-> <<>>, name |-> <<>>, ext |-> <<>>]
    ELSE IF LastAt(path, first, end, "/", TRUE) = 0
    THEN PathBase(path, 0, first, end)
    ELSE PathBase(path, LastAt(path, first, end, "/", TRUE),
                  LastAt(path, first, end, "/", TRUE) + 1, end)

\* the scan starts after the "/" of an absolute path
PathFrom(path, first) ==
    PathTail(path, first, LastAt(path, first, Len(path), "/", FALSE))

\* path.parse(path): { dir, base, name, ext }, for a non-empty path
PathParse(path) == PathFrom(path, IF path[1] = "/" THEN 2 ELSE 1)

\* the components of a path between its separators
RECURSIVE SplitSlash(_)
SplitSlash(s) ==
    LET i == IndexOfAny(s, {"/"})
    IN  IF i = 0 THEN <<s>>
        ELSE <<SubSeq(s, 1, i - 1)>> \o SplitSlash(SubSeq(s, i + 1, Len(s)))

\* normalizeString: "" and "." are dropped, ".." removes the component before it
RECURSIVE NormalizeSegments(_, _, _)
NormalizeSegments(segs, res, allowAboveRoot) ==
    IF segs = <<>> THEN res
    ELSE LET seg  == Head(segs)
             rest == Tail(segs)
         IN  IF seg = <<>> \/ seg = <<".">>
             THEN NormalizeSegments(rest, res, allowAboveRoot)
             ELSE IF seg = <<".", ".">>
             THEN IF res # <<>> /\ res[Len(res)] # <<".", ".">>
                  THEN NormalizeSegments(rest, SubSeq(res, 1, Len(res) - 1),
                                         allowAboveRoot)
                  ELSE IF allowAboveRoot
                  THEN NormalizeSegments(rest, Append(res, seg), allowAboveRoot)
                  ELSE NormalizeSegments(rest, res, allowAboveRoot)
             ELSE NormalizeSegments(rest, Append(res, seg), allowAboveRoot)

RECURSIVE JoinSlash(_)
JoinSlash(segs) ==
    IF segs = <<>> THEN <<>>
    ELSE IF Len(segs) = 1 THEN Head(segs)
    ELSE Head(segs) \o <<"/">> \o JoinSlash(Tail(segs))

\* path.normalize(path) for a non-empty path
PathNormalize(path) ==
    LET isAbsolute == path[1] = "/"
        trailing   == path[Len(path)] = "/"
        body       == JoinSlash(NormalizeSegments(SplitSlash(path), <<>>,
                                                  ~isAbsolute))
    IN  IF body = <<>>
        THEN IF isAbsolute THEN <<"/">>
             ELSE IF trailing THEN <<".", "/">> ELSE <<".">>
        ELSE (IF isAbsolute THEN <<"/">> ELSE <<>>) \o body
               \o (IF trailing THEN <<"/">> ELSE <<>>)

\* path.join(a, b) for non-empty a and b
PathJoin(a, b) == PathNormalize(a \o <<"/">> \o b)

\* a changed placement: the cleaned name alone, whatever the directory
InDirDropped(dir, cleaned) == cleaned

\* dir ? path.join(dir, cleaned) : cleaned
InDir(dir, cleaned) ==
    IF dir # <<>> THEN PathJoin(dir, cleaned) ELSE cleaned

CleanedFrom(p) == InDir(p.dir, p.name \o CleanedSuffix \o Or(p.ext, DotCsv))

\* makeCleanedName (src/index.js:40)
makeCleanedName(inputPath) == CleanedFrom(PathParse(inputPath))

(***************************************************************************)
(* State.                                                                  *)
(***************************************************************************)
VARIABLES
    normalizeUrlEnabled,          \* -n
    lowerUsernamesEnabled,        \* -u
    ignoreEmptyPasswordsEnabled,  \* -p
    preferModifyTimeEnabled,      \* -m
    overwriteEnabled,             \* -o
    inputFile,                    \* the resolved input path
    OUTPUT_FILE,                  \* the path run() derives from it
    latestRecords,                \* the Map, as its entries in insertion order
    duplicatesCount,
    pc,                           \* "cli", "start", "reading", "writing", "done", "exited"
    stream,                       \* the rows the parser has delivered so far
    resultData,                   \* the array the end handler writes
    written,                      \* the paths opened for writing
    feed,                         \* rows still to be read of a file a run wrote
    prev,                         \* the run that wrote the file being read
    access,                       \* the input on disk: "readable", "unreadable", "missing"
    exitCode,                     \* process.exit(code) or the exit of a crash; -1 while running
    stderr,                       \* what console.error and a crash print
    report,                       \* the counts the finish handler prints
    opens,                        \* calls of fs.createWriteStream
    calls,                        \* calls of run() in this process
    helpEnabled,                  \* -h
    fixedRecords,                 \* latestRecords of the variant that reads passwords.csv
    fixedResult                   \* resultData of that variant

flags == <<normalizeUrlEnabled, lowerUsernamesEnabled,
           ignoreEmptyPasswordsEnabled, preferModifyTimeEnabled,
           overwriteEnabled>>

vars == <<normalizeUrlEnabled, lowerUsernamesEnabled,
          ignoreEmptyPasswordsEnabled, preferModifyTimeEnabled,
          overwriteEnabled, inputFile, OUTPUT_FILE, latestRecords,
          duplicatesCount, pc, stream, resultData, written, feed, prev,
          access, exitCode, stderr, report, opens, calls, helpEnabled,
          fixedRecords, fixedResult>>

\* the process as the operating system sees it
host == <<access, exitCode, stderr, helpEnabled>>

\* the state of the variant with the fixed input
fixed == <<fixedRecords, fixedResult>>

(***************************************************************************)
(* The Map latestRecords: a sequence of [key, row] entries without         *)
(* repeated keys, in the order the keys were first set.                    *)
(***************************************************************************)
MapHas(m, k) == \E i \in 1..Len(m) : m[i].key = k

MapGet(m, k) == m[CHOOSE i \in 1..Len(m) : m[i].key = k].row

\* a changed set: the row is stored with its username lowercased
MapSetLowered(m, k, row) ==
    IF \E i \in 1..Len(m) : m[i].key = k
    THEN [i \in 1..Len(m) |->
            IF m[i].key = k
            THEN [key |-> k,
                  row |-> [row EXCEPT !.username = toLowerCase(row.username)]]
            ELSE m[i]]
    ELSE Append(m, [key |-> k,
                    row |-> [row EXCEPT !.username = toLowerCase(row.username)]])

\* a changed set: the key is deleted and set again, so it goes last
MapSetDeleteFirst(m, k, row) ==
    Append(SelectSeq(m, LAMBDA e : e.key # k), [key |-> k, row |-> row])

\* Map.prototype.set: a present key keeps its place, a new one goes last
MapSet(m, k, row) ==
    IF MapHas(m, k)
    THEN [i \in 1..Len(m) |-> IF m[i].key = k THEN [key |-> k, row |-> row]
                              ELSE m[i]]
    ELSE Append(m, [key |-> k, row |-> row])

\* a changed conversion: the values in reverse order
ArrayFromValuesReversed(m) == [i \in 1..Len(m) |-> m[Len(m) + 1 - i].row]

\* Array.from(latestRecords.values())
ArrayFromValues(m) == [i \in 1..Len(m) |-> m[i].row]

(***************************************************************************)
(* The 'data' handler (src/index.js:67).                                   *)
(***************************************************************************)
\* a changed filter: the password is not trimmed
EmptyPasswordUntrimmed(row) ==
    Falsy(IF Field(row, "password") = undefined THEN <<>>
          ELSE Field(row, "password"))

\* const pwd = ...; !pwd
EmptyPassword(row) ==
    LET pwd == IF Field(row, "password") = undefined THEN <<>>
               ELSE trim(Field(row, "password"))
    IN  Falsy(pwd)

\* !row.modifyTime
MissingModifyTime(row) == Falsy(Field(row, "modifyTime"))

\* changed early returns: the filters are applied whatever the flags
SkippedWhateverFlags(row) == EmptyPassword(row) \/ MissingModifyTime(row)

\* the two early returns
Skipped(row) ==
    \/ ignoreEmptyPasswordsEnabled /\ EmptyPassword(row)
    \/ preferModifyTimeEnabled /\ MissingModifyTime(row)

\* a changed username part: never lowercased
usernamePartAsTyped(row) == trim(Or(Field(row, "username"), <<>>))

usernamePart(row) ==
    IF lowerUsernamesEnabled
    THEN toLowerCase(trim(Or(Field(row, "username"), <<>>)))
    ELSE trim(Or(Field(row, "username"), <<>>))

\* a changed site part: name only when url is absent
sitePartNullish(row) ==
    IF normalizeUrlEnabled
    THEN normalizeUrl(Nullish(Field(row, "url"), Field(row, "name")))
    ELSE trim(Nullish(Nullish(Field(row, "url"), Field(row, "name")), <<>>))

sitePart(row) ==
    IF normalizeUrlEnabled
    THEN normalizeUrl(Or(Field(row, "url"), Field(row, "name")))
    ELSE trim(Or(Or(Field(row, "url"), Field(row, "name")), <<>>))

uniqueKey(row) == usernamePart(row) \o Pipe \o sitePart(row)

\* a changed choice: createTime only when modifyTime is absent
RowDateNullish(row) ==
    getTimestamp(Nullish(Field(row, "modifyTime"), Field(row, "createTime")))

\* getTimestamp(row.modifyTime || row.createTime)
RowDate(row) ==
    getTimestamp(Or(Field(row, "modifyTime"), Field(row, "createTime")))

\* a changed comparison: newDate >= existingDate
IsNewerOrEqual(newDate, existingDate) ==
    ~newDate.nan /\ ~existingDate.nan /\ newDate.v >= existingDate.v

\* a changed comparison: !(newDate <= existingDate)
IsNotOlder(newDate, existingDate) ==
    ~(~newDate.nan /\ ~existingDate.nan /\ newDate.v <= existingDate.v)

\* newDate > existingDate
IsNewer(newDate, existingDate) == Gt(newDate, existingDate)

\* latestRecords after the handler has run on a row of that key
MergedAt(m, key, row) ==
    IF MapHas(m, key)
    THEN IF IsNewer(RowDate(row), RowDate(MapGet(m, key)))
         THEN MapSet(m, key, row)
         ELSE m
    ELSE MapSet(m, key, row)

Merged(m, row) == MergedAt(m, uniqueKey(row), row)

\* a changed count: only rows that replace the stored one are counted
CountedOnReplace(m, n, row) ==
    IF /\ MapHas(m, uniqueKey(row))
       /\ IsNewer(RowDate(row), RowDate(MapGet(m, uniqueKey(row))))
    THEN n + 1 ELSE n

\* a changed count: every row that passes the filters is counted
CountedAlways(m, n, row) == n + 1

\* duplicatesCount after the handler has run on row
Counted(m, n, row) == IF MapHas(m, uniqueKey(row)) THEN n + 1 ELSE n

OnData(row) ==
    /\ pc = "reading"
    /\ stream' = Append(stream, row)
    /\ IF Skipped(row)
       THEN UNCHANGED <<latestRecords, duplicatesCount>>
       ELSE /\ latestRecords' = Merged(latestRecords, row)
            /\ duplicatesCount' = Counted(latestRecords, duplicatesCount, row)
    /\ UNCHANGED <<flags, inputFile, OUTPUT_FILE, pc, resultData, written, prev,
                   host, report, opens, calls>>

(***************************************************************************)
(* Inputs: the rows an input file may hold and the paths it may have.      *)
(***************************************************************************)
Y2022 == <<"2","0","2","2">>
Y2023 == <<"2","0","2","3">>
Y2024 == <<"2","0","2","4">>
Y2023Jan == <<"2","0","2","3","-","0","1">>
Garbled == <<"z","z">>

Row(username, url, password, modifyTime, createTime) ==
    [name |-> <<"n">>, url |-> url, username |-> username,
     password |-> password, createTime |-> createTime,
     modifyTime |-> modifyTime]

\* One account (a at x) seen with a newer, an equal, an unparseable and an
\* empty modifyTime and with a blank password; a second account (a at y),
\* once as a short record without the password and modifyTime columns.
Rows ==
    { Row(<<"a">>, <<"x">>, <<"p","1">>, Y2023, Y2022),
      Row(<<"a">>, <<"x">>, <<"p","2">>, Y2024, Y2022),
      Row(<<"a">>, <<"x">>, <<"p","3">>, Y2023Jan, Y2022),
      Row(<<"a">>, <<"x">>, <<"p","4">>, Garbled, Y2022),
      Row(<<"a">>, <<"x">>, <<" "," ">>, Y2024, Y2022),
      Row(<<"a">>, <<"x">>, <<"p","6">>, <<>>, Y2024),
      Row(<<"a">>, <<"y">>, <<"p","7">>, Y2023, Y2022),
      [name |-> <<"n">>, url |-> <<"y">>, username |-> <<"a">>,
       createTime |-> Y2024] }

UrlLogin == <<"h","t","t","p","s",":","/","/","x",".","i","o","/","l">>
UrlSignup == <<"h","t","t","p","s",":","/","/","x",".","i","o","/","s">>
UrlShouted == <<"H","T","T","P","S",":","/","/","x",".","i","o","/","l">>

\* Usernames that differ in case, urls that differ in their path or by a
\* leading space, and usernames and sites that hold the key's separator.
KeyRows ==
    { Row(<<"A">>, UrlLogin, <<"p","1">>, Y2023, Y2022),
      Row(<<"a">>, UrlLogin, <<"p","2">>, Y2022, Y2022),
      Row(<<"a">>, UrlSignup, <<"p","3">>, Y2024, Y2022),
      Row(<<"a">>, <<" ">> \o UrlLogin, <<"p","4">>, Y2023, Y2022),
      Row(<<"a">>, UrlShouted, <<"p","7">>, Y2023, Y2022),
      Row(<<"a","|","b">>, <<"c">>, <<"p","5">>, Y2023, Y2022),
      Row(<<"a">>, <<"b","|","c">>, <<"p","6">>, Y2024, Y2022) }

InCsv == <<"i","n",".","c","s","v">>

PathChars == {"a", ".", "/"}

\* every path of 1 to MaxPathLen characters
Paths == UNION { [1..n -> PathChars] : n \in 1..MaxPathLen }

(***************************************************************************)
(* The process.                                                            *)
(***************************************************************************)
NoRun == [ran |-> FALSE, result |-> <<>>, duplicates |-> 0]

\* nothing printed by the finish handler yet
NoReport == [done |-> FALSE, unique |-> 0, duplicates |-> 0]

\* the process has not exited
Running == -1

\* the state once the module is loaded (src/index.js:18-37, 125)
Loaded(path) ==
    /\ inputFile = path
    /\ OUTPUT_FILE = <<>>
    /\ latestRecords = <<>>
    /\ duplicatesCount = 0
    /\ pc = "start"
    /\ stream = <<>>
    /\ resultData = <<>>
    /\ written = {}
    /\ feed = <<>>
    /\ prev = NoRun
    /\ access = "readable"
    /\ helpEnabled = FALSE
    /\ exitCode = Running
    /\ stderr = <<>>
    /\ report = NoReport
    /\ opens = 0
    /\ calls = 0
    /\ fixedRecords = <<>>
    /\ fixedResult = <<>>

Init ==
    /\ normalizeUrlEnabled \in BOOLEAN
    /\ lowerUsernamesEnabled \in BOOLEAN
    /\ ignoreEmptyPasswordsEnabled \in BOOLEAN
    /\ preferModifyTimeEnabled \in BOOLEAN
    /\ overwriteEnabled \in BOOLEAN
    /\ Loaded(InCsv)

\* a changed run: the output is opened for writing before the input is read
RunOpeningOutput ==
    /\ pc = "start"
    /\ OUTPUT_FILE' = IF overwriteEnabled THEN inputFile
                      ELSE makeCleanedName(inputFile)
    /\ duplicatesCount' = 0
    /\ calls' = calls + 1
    /\ written' = written \cup {OUTPUT_FILE'}
    /\ opens' = opens + 1
    /\ pc' = "reading"
    /\ UNCHANGED <<flags, inputFile, latestRecords, stream, resultData,
                   feed, prev, host, report, fixed>>

\* run(resolvedInputFile) up to the creation of the read stream
Run ==
    /\ pc = "start"
    /\ OUTPUT_FILE' = IF overwriteEnabled THEN inputFile
                      ELSE makeCleanedName(inputFile)
    /\ duplicatesCount' = 0
    /\ calls' = calls + 1
    /\ pc' = "reading"
    /\ UNCHANGED <<flags, inputFile, latestRecords, stream, resultData,
                   written, feed, prev, host, report, opens, fixed>>

\* a 'data' event of an input file whose rows are not known beforehand
Data ==
    /\ ~prev.ran
    /\ access = "readable"
    /\ Len(stream) < MaxRows
    /\ \E row \in Rows : OnData(row)
    /\ UNCHANGED <<feed, fixed>>

\* the 'end' handler (src/index.js:105)
OnEnd ==
    /\ pc = "reading"
    /\ access = "readable"
    /\ feed = <<>>
    /\ resultData' = ArrayFromValues(latestRecords)
    /\ written' = written \cup {OUTPUT_FILE}
    /\ opens' = opens + 1
    /\ pc' = "writing"
    /\ UNCHANGED <<flags, inputFile, OUTPUT_FILE, latestRecords,
                   duplicatesCount, stream, feed, prev, host, report, calls>>

\* the 'end' event of the input
End == OnEnd /\ UNCHANGED fixed

\* the 'finish' handler of the write stream (src/index.js:115)
Finish ==
    /\ pc = "writing"
    /\ report' = [done |-> TRUE, unique |-> Len(resultData),
                  duplicates |-> duplicatesCount]
    /\ pc' = "done"
    /\ UNCHANGED <<flags, inputFile, OUTPUT_FILE, latestRecords,
                   duplicatesCount, stream, resultData, written, feed, prev,
                   host, opens, calls, fixed>>

\* the program is started again, with the same flags, on the file it wrote
Rerun ==
    /\ pc = "done"
    /\ ~prev.ran
    /\ prev' = [ran |-> TRUE, result |-> resultData,
                duplicates |-> duplicatesCount]
    /\ feed' = resultData
    /\ inputFile' = OUTPUT_FILE
    /\ OUTPUT_FILE' = <<>>
    /\ latestRecords' = <<>>
    /\ duplicatesCount' = 0
    /\ pc' = "start"
    /\ stream' = <<>>
    /\ resultData' = <<>>
    /\ written' = {}
    /\ report' = NoReport
    /\ opens' = 0
    /\ calls' = 0
    /\ UNCHANGED <<flags, host, fixed>>

\* a 'data' event of that second run: the next row of the file
Replay ==
    /\ prev.ran
    /\ feed # <<>>
    /\ OnData(Head(feed))
    /\ feed' = Tail(feed)
    /\ UNCHANGED fixed

Next == Run \/ Data \/ End \/ Finish \/ Rerun \/ Replay

Spec == Init /\ [][Next]_vars

(***************************************************************************)
(* The entry point: start() before run(), on an input that may be          *)
(* missing, unreadable or not given at all.                                *)
(***************************************************************************)
\* the state once the module is loaded and start() is about to be called
Launched(path, onDisk, help) ==
    /\ inputFile = path
    /\ access = onDisk
    /\ helpEnabled = help
    /\ OUTPUT_FILE = <<>>
    /\ latestRecords = <<>>
    /\ duplicatesCount = 0
    /\ pc = "cli"
    /\ stream = <<>>
    /\ resultData = <<>>
    /\ written = {}
    /\ feed = <<>>
    /\ prev = NoRun
    /\ exitCode = Running
    /\ stderr = <<>>
    /\ report = NoReport
    /\ opens = 0
    /\ calls = 0
    /\ fixedRecords = <<>>
    /\ fixedResult = <<>>

InitStart ==
    /\ normalizeUrlEnabled = FALSE
    /\ lowerUsernamesEnabled = FALSE
    /\ ignoreEmptyPasswordsEnabled = FALSE
    /\ preferModifyTimeEnabled = FALSE
    /\ overwriteEnabled \in BOOLEAN
    /\ \E path \in {undefined, InCsv} :
         \E onDisk \in {"readable", "unreadable", "missing"} :
           \E help \in BOOLEAN : Launched(path, onDisk, help)

\* process.exit(code), after console.error(message) when there is one
Exit(code, message) ==
    /\ exitCode' = code
    /\ stderr' = stderr \o message
    /\ pc' = "exited"
    /\ UNCHANGED <<flags, inputFile, OUTPUT_FILE, latestRecords,
                   duplicatesCount, stream, resultData, written, feed, prev,
                   access, helpEnabled, report, opens, calls, fixed>>

\* start (src/index.js:179): fs.existsSync is false for a missing input
Start ==
    /\ pc = "cli"
    /\ IF helpEnabled THEN Exit(0, <<>>)
       ELSE IF Falsy(inputFile) THEN Exit(1, <<"No input file provided. Exiting.">>)
       ELSE IF access = "missing" THEN Exit(1, <<"Input not found">>)
       ELSE /\ pc' = "start"
            /\ UNCHANGED <<flags, inputFile, OUTPUT_FILE, latestRecords,
                           duplicatesCount, stream, resultData, written, feed,
                           prev, host, report, opens, calls, fixed>>

\* a changed 'error' handling: the error is swallowed and the run ends as
\* if the input had been read
ReadErrorSwallowed ==
    /\ pc = "reading"
    /\ access # "readable"
    /\ resultData' = ArrayFromValues(latestRecords)
    /\ written' = written \cup {OUTPUT_FILE}
    /\ opens' = opens + 1
    /\ pc' = "writing"
    /\ UNCHANGED <<flags, inputFile, OUTPUT_FILE, latestRecords,
                   duplicatesCount, stream, feed, prev, host, report, calls,
                   fixed>>

\* the read stream cannot open the input: its 'error' event has no
\* listener (src/index.js:65), so the error is thrown and the process dies
ReadError ==
    /\ pc = "reading"
    /\ access # "readable"
    /\ Exit(1, <<"Uncaught Error">>)

NextStart == Start \/ Run \/ Data \/ ReadError \/ End \/ Finish

\* start() and run() are one synchronous call chain and the event loop
\* delivers the read error: none of them can be put off for ever
SpecStart ==
    /\ InitStart
    /\ [][NextStart]_vars
    /\ WF_vars(Start) /\ WF_vars(Run) /\ WF_vars(ReadError)

(***************************************************************************)
(* run() called a second time in the same process, on another file: its    *)
(* locals are new, the module-level Map latestRecords is the same.         *)
(***************************************************************************)
OtherCsv == <<"b",".","c","s","v">>

InitTwice ==
    /\ normalizeUrlEnabled = FALSE
    /\ lowerUsernamesEnabled = FALSE
    /\ ignoreEmptyPasswordsEnabled = FALSE
    /\ preferModifyTimeEnabled = FALSE
    /\ overwriteEnabled = FALSE
    /\ Loaded(InCsv)

DataTwice ==
    /\ access = "readable"
    /\ Len(stream) < MaxCallRows
    /\ \E row \in Rows : OnData(row)
    /\ UNCHANGED <<feed, fixed>>

\* run(OtherCsv) once the first call has finished: OUTPUT_FILE and
\* duplicatesCount are locals of the call (src/index.js:48, 63), the read
\* stream and its handlers are new, latestRecords (src/index.js:125) is not
RunAgain ==
    /\ pc = "done"
    /\ calls = 1
    /\ inputFile' = OtherCsv
    /\ OUTPUT_FILE' = IF overwriteEnabled THEN OtherCsv
                      ELSE makeCleanedName(OtherCsv)
    /\ duplicatesCount' = 0
    /\ calls' = calls + 1
    /\ stream' = <<>>
    /\ resultData' = <<>>
    /\ pc' = "reading"
    /\ UNCHANGED <<flags, latestRecords, written, feed, prev, host, report,
                   opens, fixed>>

NextTwice == Run \/ DataTwice \/ End \/ Finish \/ RunAgain

SpecTwice == InitTwice /\ [][NextTwice]_vars

(***************************************************************************)
(* Runs on rows chosen for the site part: url empty, absent or padded,     *)
(* name present or not; only -n varies.                                    *)
(***************************************************************************)
SiteRows ==
    { [username |-> <<"a">>, url |-> <<>>, name |-> <<"n">>,
       password |-> <<"p","1">>, modifyTime |-> Y2023],
      [username |-> <<"a">>, name |-> <<"n">>,
       password |-> <<"p","2">>, modifyTime |-> Y2024],
      [username |-> <<"a">>,
       password |-> <<"p","3">>, modifyTime |-> Y2023],
      [username |-> <<"a">>, url |-> <<" ","y"," ">>, name |-> <<"n">>,
       password |-> <<"p","4">>, modifyTime |-> Y2023],
      [username |-> <<"a">>, url |-> <<"y">>, name |-> <<>>,
       password |-> <<"p","5">>, modifyTime |-> Y2022] }

InitSite ==
    /\ normalizeUrlEnabled \in BOOLEAN
    /\ lowerUsernamesEnabled = FALSE
    /\ ignoreEmptyPasswordsEnabled = FALSE
    /\ preferModifyTimeEnabled = FALSE
    /\ overwriteEnabled = FALSE
    /\ Loaded(InCsv)

DataSite ==
    /\ access = "readable"
    /\ Len(stream) < MaxRows
    /\ \E row \in SiteRows : OnData(row)
    /\ UNCHANGED <<feed, fixed>>

NextSite == Run \/ DataSite \/ End \/ Finish

SpecSite == InitSite /\ [][NextSite]_vars

(***************************************************************************)
(* The second variant in src/index.js (from line 208): the input is        *)
(* passwords.csv, nothing is counted; its handlers, fed the same rows as   *)
(* those of the first variant.                                             *)
(***************************************************************************)
\* getTimestamp (src/index.js:246)
getTimestampFixed(dateString) ==
    IF Falsy(dateString) THEN Num(0) ELSE DateParse(dateString)

\* normalizeUrl (src/index.js:252)
normalizeUrlFixed(value) ==
    IF Falsy(value) THEN <<>>
    ELSE NormalizedFrom(UrlParse(IF startsWith(value, HttpPrefix) THEN value
                                 ELSE HttpsSlashes \o value),
                        value)

\* the two early returns (src/index.js:273-278)
SkippedFixed(row) ==
    \/ /\ ignoreEmptyPasswordsEnabled
       /\ Falsy(IF Field(row, "password") = undefined THEN <<>>
                ELSE trim(Field(row, "password")))
    \/ preferModifyTimeEnabled /\ Falsy(Field(row, "modifyTime"))

usernamePartFixed(row) ==
    IF lowerUsernamesEnabled
    THEN toLowerCase(trim(Or(Field(row, "username"), <<>>)))
    ELSE trim(Or(Field(row, "username"), <<>>))

sitePartFixed(row) ==
    IF normalizeUrlEnabled
    THEN normalizeUrlFixed(Or(Field(row, "url"), Field(row, "name")))
    ELSE trim(Or(Or(Field(row, "url"), Field(row, "name")), <<>>))

uniqueKeyFixed(row) == usernamePartFixed(row) \o Pipe \o sitePartFixed(row)

\* getTimestamp(row.modifyTime || row.createTime) (src/index.js:294-295)
RowDateFixed(row) ==
    getTimestampFixed(Or(Field(row, "modifyTime"), Field(row, "createTime")))

\* newDate > existingDate (src/index.js:298)
IsNewerFixed(newDate, existingDate) == Gt(newDate, existingDate)

\* has / get / compare / set (src/index.js:290-304)
MergedFixedAt(m, key, row) ==
    IF MapHas(m, key)
    THEN IF IsNewerFixed(RowDateFixed(row), RowDateFixed(MapGet(m, key)))
         THEN MapSet(m, key, row)
         ELSE m
    ELSE MapSet(m, key, row)

MergedFixed(m, row) == MergedFixedAt(m, uniqueKeyFixed(row), row)

\* the 'data' handler (src/index.js:272)
OnDataFixed(row) ==
    fixedRecords' = IF SkippedFixed(row) THEN fixedRecords
                    ELSE MergedFixed(fixedRecords, row)

\* the 'end' handler (src/index.js:306)
OnEndFixed == fixedResult' = ArrayFromValues(fixedRecords)

InitBoth ==
    /\ normalizeUrlEnabled \in BOOLEAN
    /\ lowerUsernamesEnabled \in BOOLEAN
    /\ ignoreEmptyPasswordsEnabled \in BOOLEAN
    /\ preferModifyTimeEnabled \in BOOLEAN
    /\ overwriteEnabled = FALSE
    /\ Loaded(InCsv)

\* a 'data' event with the same row in both variants
DataBoth ==
    /\ access = "readable"
    /\ Len(stream) < MaxRows
    /\ \E row \in Rows : OnData(row) /\ OnDataFixed(row)
    /\ UNCHANGED <<feed, fixedResult>>

\* the 'end' event in both variants
EndBoth == OnEnd /\ OnEndFixed /\ UNCHANGED fixedRecords

NextBoth == Run \/ DataBoth \/ EndBoth \/ Finish

SpecBoth == InitBoth /\ [][NextBoth]_vars

(***************************************************************************)
(* Runs on inputs chosen for the key: only -n and -u vary.                 *)
(***************************************************************************)
InitKey ==
    /\ normalizeUrlEnabled \in BOOLEAN
    /\ lowerUsernamesEnabled \in BOOLEAN
    /\ ignoreEmptyPasswordsEnabled = FALSE
    /\ preferModifyTimeEnabled = FALSE
    /\ overwriteEnabled = FALSE
    /\ Loaded(InCsv)

DataKey ==
    /\ ~prev.ran
    /\ Len(stream) < MaxRows
    /\ \E row \in KeyRows : OnData(row)
    /\ UNCHANGED <<feed, fixed>>

NextKey == Run \/ DataKey \/ End \/ Finish

SpecKey == InitKey /\ [][NextKey]_vars

(***************************************************************************)
(* Runs on an input file without rows, for every input path: only -o       *)
(* varies.                                                                 *)
(***************************************************************************)
InitPath ==
    /\ normalizeUrlEnabled = FALSE
    /\ lowerUsernamesEnabled = FALSE
    /\ ignoreEmptyPasswordsEnabled = FALSE
    /\ preferModifyTimeEnabled = FALSE
    /\ overwriteEnabled \in BOOLEAN
    /\ \E path \in Paths : Loaded(path)

NextPath == Run \/ End \/ Finish

SpecPath == InitPath /\ [][NextPath]_vars

(***************************************************************************)
(* Properties.  They speak of the rows of stream, the history of the run.  *)
(***************************************************************************)
\* the password is absent or, trimmed, empty
BlankPassword(row) ==
    \/ "password" \notin DOMAIN row
    \/ \A i \in 1..Len(row.password) : row.password[i] = " "

\* modifyTime is absent or empty
NoModifyTime(row) ==
    "modifyTime" \notin DOMAIN row \/ row.modifyTime = <<>>

\* the row is one the two filters discard
Discarded(row) ==
    \/ ignoreEmptyPasswordsEnabled /\ BlankPassword(row)
    \/ preferModifyTimeEnabled /\ NoModifyTime(row)

NotDiscarded(row) == ~Discarded(row)

\* the rows read so far that passed the filters, in the order read
Contributing == SelectSeq(stream, NotDiscarded)

\* the positions in Contributing of the rows of key k
PositionsOf(k) ==
    { i \in 1..Len(Contributing) : uniqueKey(Contributing[i]) = k }

\* a step in which the parser delivers a row
Delivers == Len(stream') = Len(stream) + 1

\* a >= b on numbers: false as soon as one side is NaN
Geq(a, b) == ~a.nan /\ ~b.nan /\ a.v >= b.v

\* the row is among those written (or being written) to the output
Emitted(row) ==
    pc \in {"writing", "done"} => \E p \in 1..Len(resultData) : resultData[p] = row

\* C1 as stated: for every key to which at least two rows contributed, the
\* stored (and emitted) row is the contributing row with the greatest
\* timestamp (a number no less than every parseable timestamp of the key's
\* rows), the earliest-seen of those that have it.
C1_Original ==
    \A e \in 1..Len(latestRecords) :
        LET ps == PositionsOf(latestRecords[e].key)
        IN  Cardinality(ps) >= 2 =>
              \E i \in ps :
                  /\ latestRecords[e].row = Contributing[i]
                  /\ Emitted(Contributing[i])
                  /\ ~RowDate(Contributing[i]).nan
                  /\ \A j \in ps :
                        \/ RowDate(Contributing[j]).nan
                        \/ RowDate(Contributing[j]).v <= RowDate(Contributing[i]).v
                  /\ \A j \in ps :
                        j < i =>
                          \/ RowDate(Contributing[j]).nan
                          \/ RowDate(Contributing[j]).v < RowDate(Contributing[i]).v

\* the keys and the comparison timestamps of a sequence of rows
RECURSIVE KeysOf(_)
KeysOf(rows) ==
    IF rows = <<>> THEN <<>>
    ELSE <<uniqueKey(Head(rows))>> \o KeysOf(Tail(rows))

RECURSIVE DatesOf(_)
DatesOf(rows) ==
    IF rows = <<>> THEN <<>>
    ELSE <<RowDate(Head(rows))>> \o DatesOf(Tail(rows))

\* the stored row of every key that two or more of the rows have is the
\* first of them when its timestamp is unparseable, and otherwise the
\* earliest of those with the greatest parseable timestamp
RecentOf(rows, keys, dates) ==
    \A e \in 1..Len(latestRecords) :
        LET ps    == { i \in 1..Len(rows) : keys[i] = latestRecords[e].key }
            first == CHOOSE i \in ps : \A j \in ps : i <= j
        IN  Cardinality(ps) >= 2 =>
              \E i \in ps :
                  /\ latestRecords[e].row = rows[i]
                  /\ Emitted(rows[i])
                  /\ IF dates[first].nan
                     THEN i = first
                     ELSE /\ ~dates[i].nan
                          /\ \A j \in ps :
                                dates[j].nan \/ dates[j].v <= dates[i].v
                          /\ \A j \in ps :
                                j < i => dates[j].nan \/ dates[j].v < dates[i].v

RecentAmong(rows) == RecentOf(rows, KeysOf(rows), DatesOf(rows))

\* C1 (amended): for every key to which at least two rows contributed, the
\* stored (and emitted) row is the first contributing row when that row's
\* timestamp is unparseable, and otherwise the earliest-seen of the
\* contributing rows whose timestamp is greatest among the parseable ones.
C1_Recency == RecentAmong(Contributing)

\* C1 witness: a finished run in which three rows contributed to one key, the
\* second is stored and the third, another row, has the same timestamp.
C1_Witness ==
    /\ pc = "done"
    /\ \E e \in 1..Len(latestRecords) :
          \E i, j, k \in PositionsOf(latestRecords[e].key) :
              /\ i < j /\ j < k
              /\ latestRecords[e].row = Contributing[j]
              /\ Contributing[k] # Contributing[j]
              /\ RowDate(Contributing[k]) = RowDate(Contributing[j])
              /\ Gt(RowDate(Contributing[j]), RowDate(Contributing[i]))

\* the (usernamePart, sitePart) pairs of the contributing rows
KeyPairs ==
    { <<usernamePart(Contributing[i]), sitePart(Contributing[i])>> :
        i \in 1..Len(Contributing) }

\* C2 as stated: two rows get the same key if and only if their username
\* parts are equal and their site parts are equal, and rows whose pairs
\* differ are never merged: the store holds one record for each pair.
C2_KeyMonotonicity ==
    /\ \A i, j \in 1..Len(Contributing) :
          uniqueKey(Contributing[i]) = uniqueKey(Contributing[j])
            <=> /\ usernamePart(Contributing[i]) = usernamePart(Contributing[j])
                /\ sitePart(Contributing[i]) = sitePart(Contributing[j])
    /\ Len(latestRecords) = Cardinality(KeyPairs)

\* C3: a step that delivers a row the filters discard leaves latestRecords
\* and duplicatesCount as they were, and no such row is ever in the output.
C3_FilterExclusivity ==
    /\ [][Delivers /\ Discarded(stream'[Len(stream')])
            => /\ latestRecords' = latestRecords
               /\ duplicatesCount' = duplicatesCount]_vars
    /\ [](\A p \in 1..Len(resultData) : ~Discarded(resultData[p]))

\* C3 witness: the last row read was discarded, after rows that were stored
\* and counted, and the run has ended.
C3_Witness ==
    /\ pc = "done"
    /\ Len(stream) >= 3
    /\ Discarded(stream[Len(stream)])
    /\ duplicatesCount >= 1
    /\ Len(resultData) >= 1

\* keys in the order of their first occurrence
RECURSIVE FirstKeys(_, _)
FirstKeys(keys, seen) ==
    IF keys = <<>> THEN seen
    ELSE IF \E i \in 1..Len(seen) : seen[i] = Head(keys)
    THEN FirstKeys(Tail(keys), seen)
    ELSE FirstKeys(Tail(keys), Append(seen, Head(keys)))

\* C4: the keys of latestRecords are in the order in which they were first
\* inserted, whatever was replaced since, and the emitted sequence is the
\* stored rows in that order.
C4_OutputOrder ==
    /\ [i \in 1..Len(latestRecords) |-> latestRecords[i].key]
         = FirstKeys(KeysOf(Contributing), <<>>)
    /\ pc \in {"writing", "done"} =>
         resultData = [i \in 1..Len(latestRecords) |-> latestRecords[i].row]

\* C4 witness: a finished run with two keys in which the row of the first
\* key was replaced after the second key had been inserted.
C4_Witness ==
    /\ pc = "done"
    /\ Len(resultData) = 2
    /\ Len(Contributing) = 3
    /\ uniqueKey(Contributing[1]) = uniqueKey(Contributing[3])
    /\ uniqueKey(Contributing[1]) # uniqueKey(Contributing[2])
    /\ resultData[1] = Contributing[3]
    /\ resultData[1] # Contributing[1]

\* C5: a second run, with the same flags, on the rows the first run wrote
\* writes the same rows in the same order and merges none.
C5_Idempotence ==
    prev.ran /\ pc \in {"writing", "done"} =>
        /\ resultData = prev.result
        /\ duplicatesCount = 0

\* C5 witness: the second run has finished on the output of a first run that
\* merged rows and wrote at least two.
C5_Witness ==
    /\ prev.ran
    /\ pc = "done"
    /\ Len(prev.result) >= 2
    /\ prev.duplicates >= 1
    /\ prev.result[1] # prev.result[2]

\* C6: when a row that passed the filters arrives for a key already stored
\* and its timestamp or the stored row's is unparseable, the stored rows
\* stay as they are and the run goes on reading.
C6_UnparseableNeverWins ==
    [][LET row == stream'[Len(stream')]
       IN  (/\ Delivers
            /\ ~Discarded(row)
            /\ MapHas(latestRecords, uniqueKey(row))
            /\ \/ RowDate(row).nan
               \/ RowDate(MapGet(latestRecords, uniqueKey(row))).nan)
           => /\ latestRecords' = latestRecords
              /\ pc' = "reading"]_vars

\* C6 witness: the stored row of a key has an unparseable timestamp, a later
\* row of that key has a parseable one, and the run has ended.
C6_Witness ==
    /\ pc = "done"
    /\ \E e \in 1..Len(latestRecords) :
          /\ RowDate(latestRecords[e].row).nan
          /\ \E i \in PositionsOf(latestRecords[e].key) :
                /\ ~RowDate(Contributing[i]).nan
                /\ Contributing[i] # latestRecords[e].row
                /\ Emitted(latestRecords[e].row)

\* C7: a delivered row leaves latestRecords and duplicatesCount as they were
\* if and only if (-p is on and its password is blank or absent) or (-m is
\* on and its modifyTime is absent or empty); so no stored row has a blank
\* password under -p nor lacks modifyTime under -m.
C7_FilterPredicate ==
    /\ [][Delivers =>
            (Discarded(stream'[Len(stream')])
               <=> /\ latestRecords' = latestRecords
                   /\ duplicatesCount' = duplicatesCount)]_vars
    /\ [](\A e \in 1..Len(latestRecords) :
            /\ ignoreEmptyPasswordsEnabled => ~BlankPassword(latestRecords[e].row)
            /\ preferModifyTimeEnabled => ~NoModifyTime(latestRecords[e].row))

\* C7 witness: under -p and -m, a row with a blank password and a row
\* without modifyTime were read and dropped and a third row is stored.
C7_Witness ==
    /\ ignoreEmptyPasswordsEnabled
    /\ preferModifyTimeEnabled
    /\ Len(stream) = 3
    /\ Len(latestRecords) = 1
    /\ duplicatesCount = 0
    /\ \E i, j \in 1..3 :
          /\ BlankPassword(stream[i]) /\ ~NoModifyTime(stream[i])
          /\ NoModifyTime(stream[j]) /\ ~BlankPassword(stream[j])

\* two rows of one username whose urls parse, as given, to the same scheme
\* and host and to different paths
SameOriginOtherPath(r1, r2) ==
    LET u1 == UrlParse(Or(Field(r1, "url"), <<>>))
        u2 == UrlParse(Or(Field(r2, "url"), <<>>))
    IN  /\ Field(r1, "username") = Field(r2, "username")
        /\ u1.ok /\ u2.ok
        /\ u1.protocol = u2.protocol
        /\ u1.host = u2.host
        /\ u1.path # u2.path

\* C8 as stated: of two rows of one username whose urls parse to the same
\* scheme and host and to different paths, -n leaves one key and one output
\* row, the newer, and without -n both rows have their own key and are output.
C8_NormalizeUrlEffect ==
    (/\ pc = "done"
     /\ Len(stream) = 2
     /\ SameOriginOtherPath(stream[1], stream[2]))
    => IF normalizeUrlEnabled
       THEN /\ uniqueKey(stream[1]) = uniqueKey(stream[2])
            /\ resultData = <<IF Gt(RowDate(stream[2]), RowDate(stream[1]))
                              THEN stream[2] ELSE stream[1]>>
       ELSE /\ uniqueKey(stream[1]) # uniqueKey(stream[2])
            /\ resultData = stream

\* two contributing rows of one site whose usernames differ only in case
CaseVariants(r1, r2) ==
    LET u1 == trim(Or(Field(r1, "username"), <<>>))
        u2 == trim(Or(Field(r2, "username"), <<>>))
    IN  /\ u1 # u2
        /\ toLowerCase(u1) = toLowerCase(u2)
        /\ sitePart(r1) = sitePart(r2)

\* the number of stored records under the keys of two rows
StoredUnder(r1, r2) ==
    Cardinality({ e \in 1..Len(latestRecords) :
                    latestRecords[e].key \in {uniqueKey(r1), uniqueKey(r2)} })

\* C9: two rows of one site whose usernames differ only in letter case are
\* one stored record under -u and two stored records without it.
C9_LowercaseUsernamesEffect ==
    \A i, j \in 1..Len(Contributing) :
        CaseVariants(Contributing[i], Contributing[j]) =>
            IF lowerUsernamesEnabled
            THEN /\ uniqueKey(Contributing[i]) = uniqueKey(Contributing[j])
                 /\ StoredUnder(Contributing[i], Contributing[j]) = 1
            ELSE /\ uniqueKey(Contributing[i]) # uniqueKey(Contributing[j])
                 /\ StoredUnder(Contributing[i], Contributing[j]) = 2

\* C9 witness: under -u, "A" and "a" of one site were read and merged.
C9_Witness ==
    /\ lowerUsernamesEnabled
    /\ Len(stream) = 2
    /\ CaseVariants(stream[1], stream[2])
    /\ Len(latestRecords) = 1
    /\ duplicatesCount = 1

\* a directory as the file system sees it: absolute or not, and its
\* components once "", "." and ".." are resolved ("" is ".")
DirOf(dir) ==
    LET d == IF dir = <<>> THEN <<".">> ELSE dir
    IN  <<d[1] = "/", NormalizeSegments(SplitSlash(d), <<>>, d[1] # "/")>>

\* C10: without -o the output path is "<name> (cleaned)<ext or .csv>" in the
\* directory of the input, differs from the input path, and the input file
\* is never written; with -o the output path is the input path. Nothing
\* but the output path is written.
C10_OutputPath ==
    pc # "start" =>
        /\ overwriteEnabled => OUTPUT_FILE = inputFile
        /\ ~overwriteEnabled =>
              /\ PathParse(OUTPUT_FILE).base
                   = PathParse(inputFile).name \o CleanedSuffix
                       \o (IF PathParse(inputFile).ext = <<>> THEN DotCsv
                           ELSE PathParse(inputFile).ext)
              /\ DirOf(PathParse(OUTPUT_FILE).dir) = DirOf(PathParse(inputFile).dir)
              /\ OUTPUT_FILE # inputFile
              /\ inputFile \notin written
        /\ written \subseteq {OUTPUT_FILE}

\* C10 witness: a finished run without -o on an input that has a directory
\* and an extension, whose output was written.
C10_Witness ==
    /\ pc = "done"
    /\ ~overwriteEnabled
    /\ PathParse(inputFile).dir \notin {<<>>, <<".">>, <<"/">>}
    /\ PathParse(inputFile).ext # <<>>
    /\ written = {OUTPUT_FILE}

\* there is no input to read: none was named, or the one named is missing
\* or cannot be opened
Unavailable == Falsy(inputFile) \/ access # "readable"

C12_RowsUnchanged ==
    /\ \A e \in 1..Len(latestRecords) :
          /\ \E i \in 1..Len(Contributing) :
                latestRecords[e].row = Contributing[i]
          /\ latestRecords[e].key = uniqueKey(latestRecords[e].row)
    /\ \A p \in 1..Len(resultData) :
          \E i \in 1..Len(Contributing) : resultData[p] = Contributing[i]

\* C12 witness: under -u and -n a row with an uppercase username and a url
\* with a path was emitted as read, under a lowercased key without the path.
C12_Witness ==
    /\ lowerUsernamesEnabled
    /\ normalizeUrlEnabled
    /\ pc = "done"
    /\ \E p \in 1..Len(resultData) :
          /\ resultData[p].username = <<"A">>
          /\ resultData[p].url = UrlLogin
          /\ latestRecords[p].key = <<"a">> \o Pipe
                \o <<"h","t","t","p","s",":","/","/","x",".","i","o">>

\* the Map a call of run() builds from the rows of its file when it starts
\* from the Map m
RECURSIVE StoreOf(_, _)
StoreOf(m, rows) ==
    IF rows = <<>> THEN m
    ELSE StoreOf(IF Discarded(Head(rows)) THEN m ELSE Merged(m, Head(rows)),
                 Tail(rows))

\* C13 as stated: every call of run() starts from an empty RecordStore of
\* its own, so a second call in the same process writes what it would
\* write alone, whatever the first call read.
C13_AccumulatorLocality ==
    /\ (pc = "reading" /\ stream = <<>>) => latestRecords = <<>>
    /\ pc \in {"writing", "done"} =>
          resultData = ArrayFromValues(StoreOf(<<>>, stream))

\* a > b on timestamps: false as soon as one side is unparseable
StrictlyGreater(a, b) == ~a.nan /\ ~b.nan /\ a.v > b.v

\* what the data handler does to the store m and the count n with a row
\* that passed the filters and has key k
MergeStep(m, n, m2, n2, row, k) ==
    IF \E e \in 1..Len(m) : m[e].key = k
    THEN /\ n2 = n + 1
         /\ Len(m2) = Len(m)
         /\ \A e \in 1..Len(m) :
               IF m[e].key # k THEN m2[e] = m[e]
               ELSE /\ m2[e].key = k
                    /\ m2[e].row =
                         IF StrictlyGreater(RowDate(row), RowDate(m[e].row))
                         THEN row ELSE m[e].row
    ELSE /\ n2 = n
         /\ m2 = Append(m, [key |-> k, row |-> row])

\* C14: a row that passed the filters and whose key is stored adds one to
\* duplicatesCount, replaces the stored row of its key exactly when its
\* timestamp is strictly greater, and leaves the other entries alone; a row
\* whose key is not stored is inserted and the count stays.
C14_MergeStep ==
    [][(Delivers /\ ~Discarded(stream'[Len(stream')])) =>
          MergeStep(latestRecords, duplicatesCount,
                    latestRecords', duplicatesCount',
                    stream'[Len(stream')], uniqueKey(stream'[Len(stream')]))]_vars

\* C14 witness: one key, three rows: the second replaced the first, the
\* third, older, was counted and dropped.
C14_Witness ==
    /\ Len(stream) = 3
    /\ Len(latestRecords) = 1
    /\ duplicatesCount = 2
    /\ latestRecords[1].row = stream[2]
    /\ StrictlyGreater(RowDate(stream[2]), RowDate(stream[1]))
    /\ StrictlyGreater(RowDate(stream[2]), RowDate(stream[3]))

\* the timestamp of modifyTime unless the column is absent, else of createTime
TimeUnlessAbsent(row) ==
    getTimestamp(Nullish(Field(row, "modifyTime"), Field(row, "createTime")))

\* the timestamp of modifyTime unless it is absent or empty, else of createTime
TimeUnlessEmpty(row) ==
    getTimestamp(IF "modifyTime" \in DOMAIN row /\ row.modifyTime # <<>>
                 THEN row.modifyTime
                 ELSE Field(row, "createTime"))

\* C15 as stated: in every comparison the stored and the incoming row are
\* compared by modifyTime unless the column is absent, and by createTime
\* only then.
C15_Original ==
    [][(/\ Delivers
        /\ ~Discarded(stream'[Len(stream')])
        /\ MapHas(latestRecords, uniqueKey(stream'[Len(stream')])))
       => MapGet(latestRecords', uniqueKey(stream'[Len(stream')]))
            = IF StrictlyGreater(
                   TimeUnlessAbsent(stream'[Len(stream')]),
                   TimeUnlessAbsent(MapGet(latestRecords,
                                           uniqueKey(stream'[Len(stream')]))))
              THEN stream'[Len(stream')]
              ELSE MapGet(latestRecords, uniqueKey(stream'[Len(stream')]))]_vars

\* C15 (amended): in every comparison the stored and the incoming row are
\* compared by modifyTime when it is neither absent nor empty, and by
\* createTime otherwise; an empty or absent value counts as 0.
C15_TimestampSelection ==
    [][(/\ Delivers
        /\ ~Discarded(stream'[Len(stream')])
        /\ MapHas(latestRecords, uniqueKey(stream'[Len(stream')])))
       => MapGet(latestRecords', uniqueKey(stream'[Len(stream')]))
            = IF StrictlyGreater(
                   TimeUnlessEmpty(stream'[Len(stream')]),
                   TimeUnlessEmpty(MapGet(latestRecords,
                                          uniqueKey(stream'[Len(stream')]))))
              THEN stream'[Len(stream')]
              ELSE MapGet(latestRecords, uniqueKey(stream'[Len(stream')]))]_vars

\* C15 witness: a row with an empty modifyTime and createTime 2024 replaced
\* a row of its key with modifyTime 2023.
C15_Witness ==
    /\ Len(stream) = 2
    /\ duplicatesCount = 1
    /\ Len(latestRecords) = 1
    /\ latestRecords[1].row = stream[2]
    /\ Field(stream[2], "modifyTime") = <<>>
    /\ Field(stream[2], "createTime") = Y2024
    /\ Field(stream[1], "modifyTime") = Y2023

\* the chosen site value, normalized under -n and trimmed otherwise
SiteFrom(chosen) ==
    IF normalizeUrlEnabled THEN normalizeUrl(chosen) ELSE trim(chosen)

\* url unless the column is absent, then name unless absent, then ""
SiteUnlessAbsent(row) ==
    SiteFrom(Nullish(Nullish(Field(row, "url"), Field(row, "name")), <<>>))

\* url unless it is absent or empty, then name unless absent or empty, then ""
SiteUnlessEmpty(row) ==
    SiteFrom(IF "url" \in DOMAIN row /\ row.url # <<>> THEN row.url
             ELSE IF "name" \in DOMAIN row /\ row.name # <<>> THEN row.name
             ELSE <<>>)

RECURSIVE KeysUnlessAbsent(_)
KeysUnlessAbsent(rows) ==
    IF rows = <<>> THEN <<>>
    ELSE <<usernamePart(Head(rows)) \o Pipe \o SiteUnlessAbsent(Head(rows))>>
           \o KeysUnlessAbsent(Tail(rows))

RECURSIVE KeysUnlessEmpty(_)
KeysUnlessEmpty(rows) ==
    IF rows = <<>> THEN <<>>
    ELSE <<usernamePart(Head(rows)) \o Pipe \o SiteUnlessEmpty(Head(rows))>>
           \o KeysUnlessEmpty(Tail(rows))

\* C16 as stated: the rows are stored under keys whose site part is the url
\* unless the column is absent, the name only then, and "" when both are
\* absent, normalized under -n and trimmed otherwise.
C16_Original ==
    [e \in 1..Len(latestRecords) |-> latestRecords[e].key]
        = FirstKeys(KeysUnlessAbsent(Contributing), <<>>)

\* C16 (amended): the rows are stored under keys whose site part is the url
\* when it is neither absent nor empty, else the name when it is neither
\* absent nor empty, else ""; normalized under -n and trimmed otherwise.
C16_SitePartSelection ==
    [e \in 1..Len(latestRecords) |-> latestRecords[e].key]
        = FirstKeys(KeysUnlessEmpty(Contributing), <<>>)

\* C16 witness: a row with an empty url and a row without url, both named
\* "n", were merged under the site part made of the name, and a row with
\* neither url nor name is stored under the empty site part.
C16_Witness ==
    /\ Len(stream) = 3
    /\ Field(stream[1], "url") = <<>>
    /\ Field(stream[2], "url") = undefined
    /\ Field(stream[1], "name") = <<"n">>
    /\ Field(stream[2], "name") = <<"n">>
    /\ Field(stream[3], "url") = undefined
    /\ Field(stream[3], "name") = undefined
    /\ duplicatesCount = 1
    /\ Len(latestRecords) = 2
    /\ latestRecords[1].row = stream[2]
    /\ latestRecords[2].key = <<"a">> \o Pipe

\* C17: the rows that passed the filters so far are as many as the keys of
\* latestRecords plus duplicatesCount; latestRecords holds one entry for
\* each key of those rows and no other; the counts the finish handler
\* prints are the output rows and the accepted rows less the output rows;
\* and within a run a key once stored stays stored.
C17_Counting ==
    /\ [](/\ Len(Contributing) = Len(latestRecords) + duplicatesCount
          /\ \A e1, e2 \in 1..Len(latestRecords) :
                latestRecords[e1].key = latestRecords[e2].key => e1 = e2
          /\ { latestRecords[e].key : e \in 1..Len(latestRecords) }
               = { uniqueKey(Contributing[i]) : i \in 1..Len(Contributing) }
          /\ report.done =>
                /\ report.unique = Len(resultData)
                /\ report.unique = Len(latestRecords)
                /\ report.duplicates = Len(Contributing) - report.unique)
    /\ [][pc' # "start" =>
            \A e \in 1..Len(latestRecords) :
                MapHas(latestRecords', latestRecords[e].key)]_vars

\* C17 witness: a finished run that read three rows, dropped one, merged
\* the other two and printed 1 unique account and 1 duplicate.
C17_Witness ==
    /\ pc = "done"
    /\ report.done
    /\ Len(stream) = 3
    /\ Len(Contributing) = 2
    /\ report.unique = 1
    /\ report.duplicates = 1

\* C18: while the input is read nothing is opened for writing and nothing
\* is reported; the output is opened once, at the end of the input, for the
\* rows latestRecords holds then; under -o it is the input file; no row is
\* read after that; and the counts are printed only once the write has
\* finished.
C18_ReadBeforeWrite ==
    /\ [](/\ opens <= 1
          /\ pc \in {"start", "reading"} =>
                /\ opens = 0
                /\ written = {}
                /\ ~report.done
          /\ pc \in {"writing", "done"} =>
                /\ opens = 1
                /\ written = {OUTPUT_FILE}
                /\ resultData = ArrayFromValues(latestRecords)
                /\ overwriteEnabled => OUTPUT_FILE = inputFile
          /\ report.done => pc = "done")
    /\ [][(opens >= 1 /\ pc' # "start") =>
            /\ stream' = stream
            /\ latestRecords' = latestRecords
            /\ resultData' = resultData
            /\ opens' = opens]_vars

\* C18 witness: a run under -o read two rows, then opened the input file
\* for writing, once, and printed its counts when the write had finished.
C18_Witness ==
    /\ overwriteEnabled
    /\ ~prev.ran
    /\ pc = "done"
    /\ Len(stream) = 2
    /\ resultData # <<>>
    /\ written = {inputFile}
    /\ opens = 1
    /\ report.done

\* C19: fed the same rows under the same -n, -u, -p and -m, the two
\* variants hold the same entries in the same order at every moment and
\* write the same rows in the same order.
C19_VariantEquivalence ==
    /\ fixedRecords = latestRecords
    /\ pc \in {"writing", "done"} => fixedResult = resultData

\* C19 witness: both variants finished on three rows of which one was
\* dropped or merged and a later row replaced an earlier one.
C19_Witness ==
    /\ pc = "done"
    /\ Len(stream) = 3
    /\ duplicatesCount >= 1
    /\ Len(fixedResult) = 2
    /\ fixedResult[1] = stream[3]
    /\ stream[3] # stream[1]

====
